---- MODULE Spec2Model ----
(***************************************************************************)
(* Model of src/log_instruction_generator.py: one invocation of            *)
(* generate_failure_report(log), from the test of the log to the joined    *)
(* report, with the pattern matcher and the ChatGPT adapter it calls.      *)
(*                                                                         *)
(* A text (a Python str) is a sequence of atoms.  An atom is a string: a   *)
(* single character, or a run of characters that holds no line boundary,   *)
(* no digit, no regex placeholder and no whitespace at its ends and is     *)
(* never matched by a pattern.  Log texts, the patterns and the exit       *)
(* status message are written character by character, because re.search    *)
(* and str.replace act inside them; the other messages and the lines of    *)
(* the service's answer are single atoms.                                  *)
(***************************************************************************)
EXTENDS Integers, Sequences, FiniteSets, TLC

VARIABLES pc, log, api_key, messages, analysis, instructions, report, calls,
          raised

vars == <<pc, log, api_key, messages, analysis, instructions, report, calls,
          raised>>

\* ---------------------------------------------------------------- bounds
\* A log is made of at most MaxFrags fragments.
MaxFrags == 2
\* Short answers of the service have 0..ShortResp lines.
ShortResp == 2
\* Long answers have up to ReportMaxLines + OverCap lines.
OverCap == 2

\* ------------------------------------------------------ program constants
\* content.splitlines()[:50]
AnalysisMaxLines == 50
\* instructions[:50]
ReportMaxLines == 50

\* ----------------------------------------------------------- characters
UpperCase == <<"A","B","C","D","E","F","G","H","I","J","K","L","M","N","O","P","Q",
       "R","S","T","U","V","W","X","Y","Z">>

LowerCase == <<"a","b","c","d","e","f","g","h","i","j","k","l","m","n","o","p","q",
       "r","s","t","u","v","w","x","y","z">>

Digits == {"0", "1", "2", "3", "4", "5", "6", "7", "8", "9"}

\* The line boundaries str.splitlines() splits at (those of the model's texts).
LineBreaks == {"\n", "\r"}

\* The characters str.strip() removes.
Whitespace == {" ", "\t", "\n", "\r"}

\* Case folding of one character, as re.IGNORECASE compares letters.
Lower(c) ==
    IF \E i \in 1..Len(UpperCase) : UpperCase[i] = c
    THEN LowerCase[CHOOSE i \in 1..Len(UpperCase) : UpperCase[i] = c]
    ELSE c

CharEq(a, b, ignorecase) == IF ignorecase THEN Lower(a) = Lower(b) ELSE a = b

MinOf(S) == CHOOSE x \in S : \A y \in S : x <= y

MaxOf(S) == CHOOSE x \in S : \A y \in S : x >= y

\* seq[:n]
Take(seq, n) == SubSeq(seq, 1, IF Len(seq) < n THEN Len(seq) ELSE n)

\* Whether text `sub` stands in text `s` at position i.
OccursAt(sub, s, i) ==
    /\ i + Len(sub) - 1 <= Len(s)
    /\ \A j \in 1..Len(sub) : s[i + j - 1] = sub[j]

\* ------------------------------------------------------- str operations
\* str.replace(old, new) from position i on: the text up to the next
\* occurrence of old, new in its place, and on from behind it.
RECURSIVE StrReplaceFrom(_, _, _, _)
StrReplaceFrom(s, old, new, i) ==
    LET hits == {j \in i..Len(s) : OccursAt(old, s, j)}
    IN  IF hits = {} THEN SubSeq(s, i, Len(s))
        ELSE SubSeq(s, i, MinOf(hits) - 1) \o new
             \o StrReplaceFrom(s, old, new, MinOf(hits) + Len(old))

\* str.replace(old, new): every non-overlapping occurrence, left to right.
StrReplace(s, old, new) == StrReplaceFrom(s, old, new, 1)

\* str.strip(): leading and trailing whitespace removed.
Strip(s) ==
    LET keep == {i \in 1..Len(s) : s[i] \notin Whitespace}
    IN  IF keep = {} THEN <<>> ELSE SubSeq(s, MinOf(keep), MaxOf(keep))

\* The pieces of s[lo..hi] between its line boundaries, one more than it has
\* boundaries; "\r\n" is one boundary (its "\n" adds none).  The range is
\* halved: the last piece of the left half and the first of the right half
\* are one piece.
RECURSIVE Pieces(_, _, _)
Pieces(s, lo, hi) ==
    IF lo = hi
    THEN IF s[lo] = "\n" /\ lo > 1 /\ s[lo - 1] = "\r" THEN << <<>> >>
         ELSE IF s[lo] \in LineBreaks THEN << <<>>, <<>> >>
         ELSE << <<s[lo]>> >>
    ELSE LET mid   == (lo + hi) \div 2
             left  == Pieces(s, lo, mid)
             right == Pieces(s, mid + 1, hi)
         IN  SubSeq(left, 1, Len(left) - 1)
             \o << left[Len(left)] \o right[1] >>
             \o Tail(right)

\* str.splitlines(): the lines of s without their boundaries; a boundary at
\* the very end opens no further line; the empty text has no line.
SplitLines(s) ==
    IF s = <<>> THEN <<>>
    ELSE LET pieces == Pieces(s, 1, Len(s))
         IN  IF pieces[Len(pieces)] = <<>>
             THEN SubSeq(pieces, 1, Len(pieces) - 1)
             ELSE pieces

\* "\n".join(lines[lo..hi]), the range halved.
RECURSIVE JoinRange(_, _, _)
JoinRange(lines, lo, hi) ==
    IF lo = hi THEN lines[lo]
    ELSE LET mid == (lo + hi) \div 2
         IN  JoinRange(lines, lo, mid) \o <<"\n">> \o JoinRange(lines, mid + 1, hi)

\* "\n".join(lines)
Join(lines) == IF lines = <<>> THEN <<>> ELSE JoinRange(lines, 1, Len(lines))

\* -------------------------------------------------------------- re.search
\* The source of the capture group the last pattern ends with.
GroupSrc == <<"(","\\","d","+",")">>

HasGroup(pattern) ==
    /\ Len(pattern) >= Len(GroupSrc)
    /\ OccursAt(GroupSrc, pattern, Len(pattern) - Len(GroupSrc) + 1)

\* The literal text a pattern starts with (all of it when it has no group).
Literal(pattern) ==
    IF HasGroup(pattern)
    THEN SubSeq(pattern, 1, Len(pattern) - Len(GroupSrc))
    ELSE pattern

\* Whether the pattern matches the text starting at position i: its literal
\* text, letter case ignored or not, then at least one digit when it ends
\* with (\d+).
MatchAt(pattern, s, i, ignorecase) ==
    LET lit == Literal(pattern)
    IN  /\ i + Len(lit) - 1 <= Len(s)
        /\ \A j \in 1..Len(lit) : CharEq(lit[j], s[i + j - 1], ignorecase)
        /\ HasGroup(pattern) =>
              /\ i + Len(lit) <= Len(s)
              /\ s[i + Len(lit)] \in Digits

\* re.search(pattern, s, flags): the position of the leftmost match, 0 for
\* None.
ReSearch(pattern, s, ignorecase) ==
    LET hits == {i \in 1..Len(s) : MatchAt(pattern, s, i, ignorecase)}
    IN  IF hits = {} THEN 0 ELSE MinOf(hits)

\* match.group(1) of a match at position i: the longest run of digits that
\* follows the literal text (\d+ is greedy).
Group1(pattern, s, i) ==
    LET first == i + Len(Literal(pattern))
        ends  == {j \in first..Len(s) : \A k \in first..j : s[k] \in Digits}
    IN  SubSeq(s, first, MaxOf(ends))

\* ---------------------------------------------------------- pattern table
OutOfMemoryPattern == <<"O","u","t","O","f","M","e","m","o","r","y","E","r","r","o","r">>

NoSpacePattern == <<"N","o"," ","s","p","a","c","e"," ","l","e","f","t"," ","o","n"," ",
       "d","e","v","i","c","e">>

PermissionPattern == <<"P","e","r","m","i","s","s","i","o","n"," ","d","e","n","i","e","d">>

ConnectionPattern == <<"C","o","n","n","e","c","t","i","o","n"," ","r","e","f","u","s","e",
       "d">>

SparkExceptionPattern == <<"S","p","a","r","k","E","x","c","e","p","t","i","o","n">>

\* The pattern the loop of _match_patterns compares each key with.
ExitStatusPattern == <<"T","a","s","k"," ","f","a","i","l","e","d"," ","w","i","t","h"," ",
       "e","x","i","t"," ","s","t","a","t","u","s"," ","(","\\","d","+",")">>

OutOfMemoryMsg ==
    <<"The Spark job ran out of memory. Increase executor memory or reduce data size.">>

NoSpaceMsg ==
    <<"The cluster does not have enough disk space. Free up space or use a larger instance.">>

PermissionMsg ==
    <<"A file or directory could not be accessed due to permission issues. Check IAM roles and file permissions.">>

ConnectionMsg ==
    <<"Spark could not connect to a required service. Verify network settings and service endpoints.">>

SparkExceptionMsg ==
    <<"Spark reported a generic error. Inspect earlier log entries for a more specific cause.">>

ExitStatusMsg ==
    <<"A"," ","S","p","a","r","k"," ","t","a","s","k"," ","f","a","i","l",
       "e","d","."," ","R","e","v","i","e","w"," ","t","h","e"," ","e","x",
       "e","c","u","t","o","r"," ","l","o","g","s"," ","f","o","r"," ","s",
       "t","a","c","k"," ","t","r","a","c","e","s"," ","a","n","d"," ","m",
       "e","m","o","r","y"," ","e","r","r","o","r","s",".">>

\* Mutant: the table with the generic Spark rule moved to the front.
PATTERNS_SparkFirst ==
    << [pattern |-> SparkExceptionPattern, msg |-> SparkExceptionMsg],
       [pattern |-> OutOfMemoryPattern,    msg |-> OutOfMemoryMsg],
       [pattern |-> NoSpacePattern,        msg |-> NoSpaceMsg],
       [pattern |-> PermissionPattern,     msg |-> PermissionMsg],
       [pattern |-> ConnectionPattern,     msg |-> ConnectionMsg],
       [pattern |-> ExitStatusPattern,     msg |-> ExitStatusMsg] >>

\* The table in the table's own (insertion) order.
PATTERNS ==
    << [pattern |-> OutOfMemoryPattern,    msg |-> OutOfMemoryMsg],
       [pattern |-> NoSpacePattern,        msg |-> NoSpaceMsg],
       [pattern |-> PermissionPattern,     msg |-> PermissionMsg],
       [pattern |-> ConnectionPattern,     msg |-> ConnectionMsg],
       [pattern |-> SparkExceptionPattern, msg |-> SparkExceptionMsg],
       [pattern |-> <<"T","a","s","k"," ","f","a","i","l","e","d"," ","w","i","t","h"," ",
       "e","x","i","t"," ","s","t","a","t","u","s"," ","(","\\","d","+",")">>,
        msg |-> ExitStatusMsg] >>

\* Mutant: one message for every occurrence of the pattern (re.findall).
RuleMessages_PerOccurrence(pattern, msg, text) ==
    [i \in 1..Cardinality({at \in 1..Len(text) : MatchAt(pattern, text, at, TRUE)})
        |-> msg]

\* One pass of the loop of _match_patterns: the messages one rule appends.
RuleMessages(pattern, msg, text) ==
    IF ReSearch(pattern, text, TRUE) # 0
    THEN IF pattern = ExitStatusPattern
         THEN LET match == ReSearch(pattern, text, FALSE)
              IN  IF match # 0
                  THEN <<StrReplace(msg, GroupSrc, Group1(pattern, text, match))>>
                  ELSE <<>>
         ELSE <<msg>>
    ELSE <<>>

RECURSIVE MatchFrom(_, _)
MatchFrom(text, i) ==
    IF i > Len(PATTERNS) THEN <<>>
    ELSE RuleMessages(PATTERNS[i].pattern, PATTERNS[i].msg, text)
         \o MatchFrom(text, i + 1)

\* _match_patterns(log): the messages of the rules that match, in table order.
_match_patterns(text) == MatchFrom(text, 1)

\* ------------------------------------------------------- fixed report lines
NoLogMsg == <<"No log information provided.">>

SkippedMsg == <<"OpenAI API key not configured; skipping ChatGPT analysis.">>

FailedPrefix == <<"ChatGPT request failed:", " ">>

FallbackLine ==
    <<"Could not determine a specific cause. Check the stack trace and verify Spark configuration, resource allocation, and input data.">>

ClosingLine ==
    <<"For more detailed analysis, review the full executor logs and Airflow task output around the failure time.">>

\* ------------------------------------------------------- _chatgpt_analysis
\* os.getenv("OPENAI_API_KEY"): unset (None) or a string, possibly empty.
ApiKeys ==
    { [set |-> FALSE, value |-> ""],
      [set |-> TRUE,  value |-> ""],
      [set |-> TRUE,  value |-> "sk-test"] }

\* Mutant: `api_key is None`, the empty string counts as a key.
NotApiKey_UnsetOnly(key) == ~key.set

\* `not api_key`
NotApiKey(key) == ~key.set \/ key.value = ""

\* The exception response["choices"][0]["message"]["content"] raises on a
\* response, "" when it raises none.
ResponseError(response) ==
    IF "choices" \notin DOMAIN response THEN "KeyError"
    ELSE IF Len(response.choices) = 0 THEN "IndexError"
    ELSE IF "message" \notin DOMAIN response.choices[1] THEN "KeyError"
    ELSE IF "content" \notin DOMAIN response.choices[1].message THEN "KeyError"
    ELSE ""

\* content = response[...].strip(); "\n".join(content.splitlines()[:50])
TrimContent(response) ==
    LET content == Strip(response.choices[1].message.content)
    IN  Join(Take(SplitLines(content), AnalysisMaxLines))

\* ----------------------------------------------- what the service can answer
\* n copies of one line, with sep between them.
Repeat(line, n, sep) ==
    LET period == Len(line) + Len(sep)
    IN  [i \in 1..(n * period - (IF n = 0 THEN 0 ELSE Len(sep))) |->
            LET k == (i - 1) % period
            IN  IF k < Len(line) THEN line[k + 1] ELSE sep[k - Len(line) + 1]]

PlainLine == <<"The executor was killed for exceeding its memory limit.">>

\* Numbers of lines of an answer: a few, and around the cap of the report.
AnswerLengths ==
    (0..ShortResp)
    \cup ((ReportMaxLines - Len(PATTERNS) - 2)..(ReportMaxLines + OverCap))

\* Answers: lines of free text, lines that repeat a sentence the report also
\* uses, answers wrapped in whitespace with "\r\n" boundaries, answers with
\* blank lines.
Contents ==
    {Repeat(line, n, <<"\n">>) :
        line \in {PlainLine, OutOfMemoryMsg, ClosingLine}, n \in AnswerLengths}
    \cup {<<" ", "\n">> \o Repeat(PlainLine, n, <<"\r", "\n">>) \o <<"\n", "\t">> :
             n \in AnswerLengths}
    \cup {Repeat(PlainLine, n, <<"\n", "\n">>) : n \in AnswerLengths}

Completion(content) ==
    [choices |-> <<[message |-> [role |-> "assistant", content |-> content]]>>]

\* Responses of openai.ChatCompletion.create that come back without the
\* fields line 63 reads.
MalformedResponses ==
    { [error |-> "overloaded"],
      [choices |-> <<>>],
      [choices |-> <<[finish_reason |-> "length"]>>],
      [choices |-> <<[message |-> [role |-> "assistant"]]>>] }

Responses == {Completion(c) : c \in Contents} \cup MalformedResponses

\* str(exc) of the exceptions the call raises: one line, none, two lines.
ExcTexts ==
    { <<"Connection error.">>,
      <<>>,
      <<"Rate limit reached.", "\n", "Retry after 20s.">> }

\* ------------------------------------------------------------------- logs
\* Pieces of log text: the signatures in the table's spelling and in other
\* letter case, an exit status, and text no rule matches.
Fragments ==
    { <<"O","u","t","O","f","M","e","m","o","r","y","E","r","r","o","r">>,
      <<"j","a","v","a",".","l","a","n","g",".","O","U","T","O","F","M","E",
       "M","O","R","Y","E","R","R","O","R">>,
      <<"C","o","n","n","e","c","t","i","o","n"," ","r","e","f","u","s","e",
       "d">>,
      <<"S","p","a","r","k","E","x","c","e","p","t","i","o","n">>,
      <<"T","a","s","k"," ","f","a","i","l","e","d"," ","w","i","t","h"," ",
       "e","x","i","t"," ","s","t","a","t","u","s"," ">>,
      <<"T","A","S","K"," ","F","A","I","L","E","D"," ","w","i","t","h"," ",
       "e","x","i","t"," ","s","t","a","t","u","s"," ">>,
      <<"1","3","7">>,
      <<":"," ","j","o","b"," ","a","b","o","r","t","e","d"," ">> }

\* The log of the scenario of the specification.
ScenarioLog == <<"S","p","a","r","k","E","x","c","e","p","t","i","o","n",":"," ","C",
       "o","n","n","e","c","t","i","o","n"," ","r","e","f","u","s","e","d",
       " ","w","h","i","l","e"," ","a","c","c","e","s","s","i","n","g"," ",
       "H","D","F","S">>

\* A log every rule matches.
AllPatternsLog ==
    <<"O","u","t","O","f","M","e","m","o","r","y","E","r","r","o","r",";",
       " ","N","o"," ","s","p","a","c","e"," ","l","e","f","t"," ","o","n",
       " ","d","e","v","i","c","e",";"," ","P","e","r","m","i","s","s","i",
       "o","n"," ","d","e","n","i","e","d",";"," ","C","o","n","n","e","c",
       "t","i","o","n"," ","r","e","f","u","s","e","d",";"," ","S","p","a",
       "r","k","E","x","c","e","p","t","i","o","n",";"," ","T","a","s","k",
       " ","f","a","i","l","e","d"," ","w","i","t","h"," ","e","x","i","t",
       " ","s","t","a","t","u","s"," ","1">>

\* The two rules that are in no fragment, in the reverse of the table's order.
DiskLog == <<"p","e","r","m","i","s","s","i","o","n"," ","D","E","N","I","E","D",
       ":"," ","n","o"," ","s","p","a","c","e"," ","l","e","f","t"," ","o",
       "n"," ","d","e","v","i","c","e">>

RECURSIVE Concat(_)
Concat(pieces) ==
    IF pieces = <<>> THEN <<>> ELSE Head(pieces) \o Concat(Tail(pieces))

LogTexts ==
    {Concat(pieces) :
        pieces \in UNION {[1..n -> Fragments] : n \in 0..MaxFrags}}
    \cup {ScenarioLog, AllPatternsLog, DiskLog}

\* The argument of generate_failure_report: None or a str.
Logs ==
    {[isNone |-> TRUE, text |-> <<>>]}
    \cup {[isNone |-> FALSE, text |-> t] : t \in LogTexts}

\* Mutant: `log is None`, the empty string passes.
NotLog_NoneOnly(l) == l.isNone

\* `not log`
NotLog(l) == l.isNone \/ Len(l.text) = 0

\* --------------------------------------------------- generate_failure_report
\* instructions.append(fallback) `if not instructions`
WithFallback(instr) == IF instr = <<>> THEN <<FallbackLine>> ELSE instr

\* Mutant: the list is not cut.
TrimReport_Uncapped(instr) == instr

\* Mutant: the last 50 entries are kept (instructions[-50:]).
TrimReport_Last(instr) ==
    SubSeq(instr, IF Len(instr) > 50 THEN Len(instr) - 49 ELSE 1, Len(instr))

\* instructions[:50]
TrimReport(instr) == Take(instr, ReportMaxLines)

\* Lines 95-109: fallback, closing line, trimming.
FinalLines(instr) == TrimReport(Append(WithFallback(instr), ClosingLine))

Init ==
    /\ pc = "start"
    /\ log \in Logs
    /\ api_key \in ApiKeys
    /\ messages = <<>>
    /\ analysis = <<>>
    /\ instructions = <<>>
    /\ report = <<>>
    /\ calls = 0
    /\ raised = ""

\* Lines 85-86: the early exit.
EmptyLog ==
    /\ pc = "start"
    /\ NotLog(log)
    /\ report' = NoLogMsg
    /\ pc' = "done"
    /\ UNCHANGED <<log, api_key, messages, analysis, instructions, calls, raised>>

\* Line 89: instructions.extend(_match_patterns(log)).
MatchStep ==
    /\ pc = "start"
    /\ ~NotLog(log)
    /\ messages' = _match_patterns(log.text)
    /\ instructions' = instructions \o messages'
    /\ pc' = "augmenting"
    /\ UNCHANGED <<log, api_key, analysis, report, calls, raised>>

\* Lines 39-41 and 92: no key, no call.
AnalysisSkipped ==
    /\ pc = "augmenting"
    /\ NotApiKey(api_key)
    /\ analysis' = SkippedMsg
    /\ instructions' = instructions \o SplitLines(analysis')
    /\ pc' = "finalizing"
    /\ UNCHANGED <<log, api_key, messages, report, calls, raised>>

\* Lines 51-61 and 92: the call raises, the adapter returns the reason.
AnalysisFailed ==
    /\ pc = "augmenting"
    /\ ~NotApiKey(api_key)
    /\ \E exc \in ExcTexts :
          /\ analysis' = FailedPrefix \o exc
          /\ instructions' = instructions \o SplitLines(analysis')
    /\ calls' = calls + 1
    /\ pc' = "finalizing"
    /\ UNCHANGED <<log, api_key, messages, report, raised>>

\* Lines 51-64 and 92: the call returns a response line 63 can read.
AnalysisReturned ==
    /\ pc = "augmenting"
    /\ ~NotApiKey(api_key)
    /\ \E response \in Responses :
          /\ ResponseError(response) = ""
          /\ analysis' = TrimContent(response)
          /\ instructions' = instructions \o SplitLines(analysis')
    /\ calls' = calls + 1
    /\ pc' = "finalizing"
    /\ UNCHANGED <<log, api_key, messages, report, raised>>

\* Lines 51-63: the call returns a response line 63 cannot read; line 63 is
\* outside the try block, so its exception leaves generate_failure_report.
AnalysisMalformed ==
    /\ pc = "augmenting"
    /\ ~NotApiKey(api_key)
    /\ \E response \in Responses :
          /\ ResponseError(response) # ""
          /\ raised' = ResponseError(response)
    /\ calls' = calls + 1
    /\ pc' = "raised"
    /\ UNCHANGED <<log, api_key, messages, analysis, instructions, report>>

\* Lines 95-109: fallback, closing line, trimming, join.
Finalize ==
    /\ pc = "finalizing"
    /\ instructions' = FinalLines(instructions)
    /\ report' = Join(instructions')
    /\ pc' = "done"
    /\ UNCHANGED <<log, api_key, messages, analysis, calls, raised>>

Next ==
    \/ EmptyLog
    \/ MatchStep
    \/ AnalysisSkipped
    \/ AnalysisFailed
    \/ AnalysisReturned
    \/ AnalysisMalformed
    \/ Finalize

Spec == Init /\ [][Next]_vars

\* =================================================================== claims
\* What the claims read off a state.
NonEmptyLog == ~log.isNone /\ log.text # <<>>

CredentialPresent == api_key.set /\ api_key.value # ""

ReportLines == SplitLines(report)

ExternalLines == SplitLines(analysis)

Count(lines, line) == Cardinality({i \in 1..Len(lines) : lines[i] = line})

Contains(text, sub) == \E i \in 1..Len(text) : OccursAt(sub, text, i)

\* One more than the line boundaries in the text.
NumLines(text) == Cardinality({i \in 1..Len(text) : text[i] \in LineBreaks}) + 1

\* The rule a message of the pattern matcher belongs to: one of the first
\* five by its text, else the exit status rule.
RuleOf(message) ==
    IF \E r \in 1..5 : PATTERNS[r].msg = message
    THEN CHOOSE r \in 1..5 : PATTERNS[r].msg = message
    ELSE 6

MatchingRules(text) ==
    {r \in 1..Len(PATTERNS) : ReSearch(PATTERNS[r].pattern, text, TRUE) # 0}

\* C1: for every log and every outcome of the external analysis, the report
\* that generate_failure_report returns has at most 50 lines.
C1_AtMost50Lines == pc = "done" => NumLines(report) <= 50

\* C1 witness: every rule matched, the service answered with 50 lines or
\* more, and the report returned is full.
C1_Witness ==
    /\ pc = "done"
    /\ calls = 1
    /\ Len(messages) = 6
    /\ Len(ExternalLines) = 50
    /\ NumLines(report) = 50

\* C2: generate_failure_report never raises for a non-empty log: a failure of
\* the external call, a malformed response included, becomes one report line
\* and no exception reaches the caller.
C2_NeverRaises == raised = "" /\ pc # "raised"

\* C3: for a log that matches no pattern, with no credential, the report has
\* the generic fallback instruction, the closing guidance line and one
\* "skipped" line, in that relative order.
C3_FallbackClosingSkipped ==
    (/\ pc = "done"
     /\ NonEmptyLog
     /\ ~CredentialPresent
     /\ MatchingRules(log.text) = {})
    => \E i, j, k \in 1..Len(ReportLines) :
          /\ i < j /\ j < k
          /\ ReportLines[i] = FallbackLine
          /\ ReportLines[j] = ClosingLine
          /\ ReportLines[k] = SkippedMsg

\* C4: for a log that contains "Task failed with exit status N", the report
\* has the exit status message with N substituted: a line of the pattern
\* matcher that mentions N.
C4_ExitStatusMentioned ==
    (/\ pc = "done"
     /\ NonEmptyLog
     /\ ReSearch(ExitStatusPattern, log.text, FALSE) # 0)
    => LET at == ReSearch(ExitStatusPattern, log.text, FALSE)
           N  == Group1(ExitStatusPattern, log.text, at)
       IN  \E i \in 1..Len(messages) :
              /\ i <= Len(ReportLines)
              /\ ReportLines[i] = messages[i]
              /\ Contains(ReportLines[i], N)

\* C5: for every log and every rule, the exit status rule included, the
\* rule's message is in the result of _match_patterns exactly if the rule's
\* pattern occurs in the log, letter case ignored; the messages stand in table
\* order; an empty or unmatched log yields the empty sequence.
C5_MessagesIffMatch ==
    pc = "augmenting" =>
        /\ {RuleOf(messages[i]) : i \in 1..Len(messages)} = MatchingRules(log.text)
        /\ \A i, j \in 1..Len(messages) :
              i < j => RuleOf(messages[i]) < RuleOf(messages[j])

\* C6, as claimed: for the scenario's log with no credential the report is
\* the SparkException message, the Connection-refused message, the skipped
\* line and the closing line.
C6_SparkFirst ==
    (pc = "done" /\ ~log.isNone /\ log.text = ScenarioLog /\ ~CredentialPresent)
    => ReportLines = <<SparkExceptionMsg, ConnectionMsg, SkippedMsg, ClosingLine>>

\* C6, amended: for the scenario's log with no credential the report is the
\* Connection-refused message, then the SparkException message (the table's
\* order), the skipped line, no fallback line, and the closing line.
C6_TableOrder ==
    (pc = "done" /\ ~log.isNone /\ log.text = ScenarioLog /\ ~CredentialPresent)
    => ReportLines = <<ConnectionMsg, SparkExceptionMsg, SkippedMsg, ClosingLine>>

\* C6 witness: the scenario has run to its report.
C6_Witness ==
    /\ pc = "done"
    /\ ~log.isNone /\ log.text = ScenarioLog
    /\ ~api_key.set
    /\ Len(ReportLines) = 4
    /\ ReportLines[1] = ConnectionMsg

\* C7: for an empty or null log, generate_failure_report returns exactly
\* "No log information provided.", whatever the credential and the service.
C7_EmptyLogSentinel ==
    (log.isNone \/ log.text = <<>>) =>
        /\ pc \in {"start", "done"}
        /\ pc = "done" =>
              /\ report = <<"No log information provided.">>
              /\ calls = 0

\* C7 witness: the empty string, with a credential configured, has returned.
C7_Witness ==
    /\ pc = "done"
    /\ ~log.isNone /\ log.text = <<>>
    /\ CredentialPresent
    /\ report = NoLogMsg

\* C8, as claimed: for a log that contains "OutOfMemoryError" in any letter
\* case, any number of times, the report has the out-of-memory message line
\* exactly once, under every outcome of the external analysis.
C8_ExactlyOnce ==
    (/\ pc = "done"
     /\ NonEmptyLog
     /\ ReSearch(OutOfMemoryPattern, log.text, TRUE) # 0)
    => Count(ReportLines, OutOfMemoryMsg) = 1

\* C8, amended: for such a log the pattern matcher gives the out-of-memory
\* message exactly once and it is the first line of the report, under every
\* outcome of the external analysis; the report has that line exactly once
\* whenever no line of the external analysis is the same sentence.
C8_OnceFromMatcher ==
    (/\ pc = "done"
     /\ NonEmptyLog
     /\ ReSearch(OutOfMemoryPattern, log.text, TRUE) # 0)
    => /\ Count(messages, OutOfMemoryMsg) = 1
       /\ ReportLines[1] = OutOfMemoryMsg
       /\ Count(ExternalLines, OutOfMemoryMsg) = 0
             => Count(ReportLines, OutOfMemoryMsg) = 1

\* C8 witness: the signature occurs twice, in two spellings, the service was
\* asked, and the report has the message once.
C8_Witness ==
    /\ pc = "done"
    /\ calls = 1
    /\ ~log.isNone
    /\ log.text = <<"O","u","t","O","f","M","e","m","o","r","y","E","r","r","o","r">>
                  \o <<"j","a","v","a",".","l","a","n","g",".","O","U","T","O","F","M","E",
       "M","O","R","Y","E","R","R","O","R">>
    /\ Count(ReportLines, OutOfMemoryMsg) = 1

\* C9: in one invocation the external service is called exactly once when the
\* log is non-empty and the credential is present, and never when the log is
\* empty or the credential is absent; the call comes after pattern matching
\* and is not repeated after a failure.
C9_OneCall ==
    /\ calls \in {0, 1}
    /\ calls = 1 => pc \in {"finalizing", "done", "raised"}
    /\ pc \in {"finalizing", "done", "raised"} =>
          calls = (IF NonEmptyLog /\ CredentialPresent THEN 1 ELSE 0)

\* C9 witness: the one call failed and the report was finished without a
\* second call.
C9_Witness ==
    /\ pc = "done"
    /\ calls = 1
    /\ ExternalLines # <<>>
    /\ ExternalLines[1] = FailedPrefix \o <<"Connection error.">>

\* What lines 89-104 put in the list before it is cut.
FullList ==
    LET found == messages \o ExternalLines
    IN  (IF found = <<>> THEN <<FallbackLine>> ELSE found) \o <<ClosingLine>>

\* C10, as claimed: for a non-empty log the report is the first 50 entries of
\* pattern messages ++ external lines ++ fallback line if still empty ++
\* closing line; the closing line is the last line of the report when pattern
\* messages and external lines number at most 49 and is absent from the
\* report when they number 50 or more.
C10_ClosingAbsentWhenFull ==
    (pc = "done" /\ NonEmptyLog) =>
        /\ report = Join(Take(FullList, 50))
        /\ Len(messages) + Len(ExternalLines) <= 49
              => ReportLines[Len(ReportLines)] = ClosingLine
        /\ Len(messages) + Len(ExternalLines) >= 50
              => Count(ReportLines, ClosingLine) = 0

\* C10, amended: the same list and the same last line; when pattern messages
\* and external lines number 50 or more the appended closing line is cut
\* off, the report being the first 50 of those lines, so that it has the
\* closing text only where one of those lines is that text.
C10_FirstFifty ==
    (pc = "done" /\ NonEmptyLog) =>
        /\ report = Join(Take(FullList, 50))
        /\ Len(messages) + Len(ExternalLines) <= 49
              => ReportLines[Len(ReportLines)] = ClosingLine
        /\ Len(messages) + Len(ExternalLines) >= 50
              => /\ report = Join(Take(messages \o ExternalLines, 50))
                 /\ Count(ExternalLines, ClosingLine) = 0
                       => Count(ReportLines, ClosingLine) = 0

\* C10 witness: 50 lines or more before the closing line, which is cut off.
C10_Witness ==
    /\ pc = "done"
    /\ NonEmptyLog
    /\ Len(messages) + Len(ExternalLines) >= 50
    /\ Len(messages) >= 1
    /\ Count(ReportLines, ClosingLine) = 0
====
